---- MODULE Spec2Model ----
(***************************************************************************)
(* Model of src/backend/distributed/operations/citus_tools.c:              *)
(* master_run_on_worker with its sequential and parallel executors, and    *)
(* the result evaluator they share.                                        *)
(*                                                                         *)
(* Texts (StringInfo contents, error messages) are sequences of tokens; a  *)
(* token is a piece of text without a line break, or the line break "\n".  *)
(* appendStringInfo is concatenation, resetStringInfo the empty sequence.  *)
(***************************************************************************)
EXTENDS Integers, Sequences, FiniteSets, TLC

(* ------------------------------ bounds -------------------------------- *)

\* largest number of elements in an argument array of master_run_on_worker
MaxCommands == 2
\* largest number of sweeps in which PQisBusy reports one connection busy
MaxBusy == 1
\* largest PQntuples / PQnfields / error message length given to the evaluator
MaxTuples == 2
MaxFields == 2
MaxMsgLen == 3

(* ---------------------------- environment ----------------------------- *)

\* The (node, port, command) triples the argument arrays are drawn from.
\* Nodes w1 and w2 answer; "down" refuses connections; "nosend" accepts the
\* connection and fails the send; "lost" turns CONNECTION_BAD after the send;
\* "noinput" makes PQconsumeInput fail.
CommandPool ==
    { <<"w1", 57637, "SELECT 1">>,
      <<"w2", 57638, "SELECT 1, 2">>,
      <<"w2", 57637, "CREATE TABLE t(a int)">>,
      <<"w1", 57638, "SELECT 1/0">>,
      <<"down", 57637, "SELECT 1">>,
      <<"nosend", 57638, "SELECT 1">>,
      <<"lost", 57637, "SELECT 1">>,
      <<"noinput", 57638, "SELECT 1">> }

\* type oids of the expected tuple descriptor
TEXTOID == "text"
INT4OID == "int4"
BOOLOID == "bool"

\* a PGresult: status, command tag, shape, and the cell at row 0, column 0
PGresult(status, cmdStatus, ntuples, nfields, isnull, value) ==
    [status |-> status, cmdStatus |-> cmdStatus, ntuples |-> ntuples,
     nfields |-> nfields, isnull |-> isnull, value |-> value]

\* PQerrorMessage: a char pointer, possibly NULL
ErrorMessage(isNull, text) == [isNull |-> isNull, text |-> text]

\* what the remote node answers to a query
RemoteResult(query) ==
    CASE query = "SELECT 1" ->
            PGresult("PGRES_TUPLES_OK", "SELECT 1", 1, 1, FALSE, "1")
      [] query = "SELECT 1, 2" ->
            PGresult("PGRES_TUPLES_OK", "SELECT 1", 1, 2, FALSE, "1")
      [] query = "CREATE TABLE t(a int)" ->
            PGresult("PGRES_COMMAND_OK", "CREATE TABLE", 0, 0, TRUE, "")
      [] OTHER ->
            PGresult("PGRES_FATAL_ERROR", "", 0, 0, TRUE, "")

\* the result GetRemoteCommandResult hands back: NULL when the connection broke,
\* for which PQresultStatus reports PGRES_FATAL_ERROR
BlockingResult(host, query) ==
    IF host \in {"lost", "noinput"}
    THEN PGresult("PGRES_FATAL_ERROR", "", 0, 0, TRUE, "")
    ELSE RemoteResult(query)

\* the connection's error message once something failed on it
ConnErrorMessage(host, query) ==
    CASE host = "nosend" ->
            ErrorMessage(FALSE, <<"no connection to the server", "\n">>)
      [] host \in {"lost", "noinput"} ->
            ErrorMessage(FALSE, <<"server closed the connection unexpectedly", "\n",
                                  "This probably means the server terminated abnormally">>)
      [] query = "SELECT 1/0" ->
            ErrorMessage(FALSE, <<"ERROR:  division by zero", "\n">>)
      [] OTHER -> ErrorMessage(FALSE, <<>>)

(* ------------------------- result evaluation -------------------------- *)

\* strchr(errorMessage, '\n'): the position of the first line break, 0 if none
FirstNewlineIndex(text) ==
    IF \E i \in 1..Len(text) : text[i] = "\n"
    THEN CHOOSE i \in 1..Len(text) :
            /\ text[i] = "\n"
            /\ \A j \in 1..(i - 1) : text[j] # "\n"
    ELSE 0

\* faulty variant: the message is stored whole
StoreErrorMessageUntrimmed(errorMessage, queryResultString) ==
    queryResultString \o
        (IF ~errorMessage.isNull
         THEN errorMessage.text
         ELSE <<"An error occurred while running the query">>)

StoreErrorMessage(errorMessage, queryResultString) ==
    LET trimmed ==
            IF ~errorMessage.isNull
            THEN IF FirstNewlineIndex(errorMessage.text) # 0
                 THEN SubSeq(errorMessage.text, 1,
                             FirstNewlineIndex(errorMessage.text) - 1)
                 ELSE errorMessage.text
            ELSE <<"An error occurred while running the query">>
    IN queryResultString \o trimmed

\* faulty variant: the row and column numbers are not checked
PQgetisnullUnchecked(queryResult, row, column) == queryResult.isnull

\* PQgetisnull: a cell outside the result's range reads as null
PQgetisnull(queryResult, row, column) ==
    IF row >= queryResult.ntuples \/ column >= queryResult.nfields
    THEN TRUE
    ELSE queryResult.isnull

\* faulty variant: the row count is checked before the column count
EvaluateQueryResultRowsFirst(errorMessage, queryResult, queryResultString) ==
    IF queryResult.status = "PGRES_COMMAND_OK"
    THEN [success |-> TRUE,
          result |-> queryResultString \o <<queryResult.cmdStatus>>]
    ELSE IF queryResult.status = "PGRES_TUPLES_OK"
    THEN IF queryResult.ntuples > 1
         THEN [success |-> FALSE,
               result |-> queryResultString \o
                          <<"expected a single row in query result">>]
         ELSE IF queryResult.nfields # 1
         THEN [success |-> FALSE,
               result |-> queryResultString \o
                          <<"expected a single column in query target">>]
         ELSE [success |-> TRUE,
               result |-> IF ~PQgetisnull(queryResult, 0, 0)
                          THEN queryResultString \o <<queryResult.value>>
                          ELSE queryResultString]
    ELSE [success |-> FALSE,
          result |-> StoreErrorMessage(errorMessage, queryResultString)]

\* returns the success flag together with the new queryResultString
EvaluateQueryResult(errorMessage, queryResult, queryResultString) ==
    IF queryResult.status = "PGRES_COMMAND_OK"
    THEN [success |-> TRUE,
          result |-> queryResultString \o <<queryResult.cmdStatus>>]
    ELSE IF queryResult.status = "PGRES_TUPLES_OK"
    THEN IF queryResult.nfields # 1
         THEN [success |-> FALSE,
               result |-> queryResultString \o
                          <<"expected a single column in query target">>]
         ELSE IF queryResult.ntuples > 1
         THEN [success |-> FALSE,
               result |-> queryResultString \o
                          <<"expected a single row in query result">>]
         ELSE [success |-> TRUE,
               result |-> IF ~PQgetisnull(queryResult, 0, 0)
                          THEN queryResultString \o <<queryResult.value>>
                          ELSE queryResultString]
    ELSE [success |-> FALSE,
          result |-> StoreErrorMessage(errorMessage, queryResultString)]

(* ------------------------------- state -------------------------------- *)

VARIABLES
    nodeNameArg,        \* PG_GETARG_ARRAYTYPE_P(0): node names
    nodePortArg,        \* PG_GETARG_ARRAYTYPE_P(1): node ports
    commandArg,         \* PG_GETARG_ARRAYTYPE_P(2): command strings
    parallelArg,        \* PG_GETARG_BOOL(3)
    rsinfo,             \* fcinfo->resultinfo
    pc,                 \* position of the backend in master_run_on_worker
    commandIndex,       \* loop variable of the running loop
    nodeNameArray, nodePortArray, commandStringArray, commandCount,
    statusArray, resultArray,
    connectionArray,    \* parallel executor: connection of each slot, or NULL
    finishedCount,      \* parallel executor
    connection,         \* sequential executor: connection of the running command
    conns,              \* every MultiConnection created so far, by identity
    callBase,           \* number of connections that existed when the call began
    busyPolls,          \* sweeps in which each slot was found busy
    InterruptPending,   \* a cancel request was received and not yet served
    errorRaised,        \* message of the ERROR that ended the call, "" if none
    setResult,          \* rsinfo->setResult: the rows handed to the caller
    returned,           \* result sets of the calls that returned, per mode
    outcomes,           \* per command, the terminal events that recorded its status
    evalQueryResult,        \* evaluator under test: its PGresult
    evalErrorMessage,       \* evaluator under test: PQerrorMessage of its connection
    evaluated,          \* evaluator under test: its output, once applied
    membership,         \* ActiveReadableNodeList(), in the order it lists the nodes
    workerNodeList,     \* StoreAllConnectivityChecks: the sorted node list
    sourceIndex,        \* position of the outer loop in workerNodeList
    targetIndex,        \* position of the inner loop in workerNodeList
    connectionToSourceNode, \* connection of the running source, by identity
    healthRows,         \* the tuples put into the tuple store so far
    sourceLog,          \* per source handled, how it behaves towards this node
    probeLog,           \* per tuple, what its probe did
    lastCheck           \* the last run of CheckConnectionToNode on a source

vars == <<nodeNameArg, nodePortArg, commandArg, parallelArg, rsinfo, pc,
          commandIndex, nodeNameArray, nodePortArray, commandStringArray,
          commandCount, statusArray, resultArray, connectionArray, finishedCount,
          connection, conns, callBase, busyPolls, InterruptPending, errorRaised,
          setResult, returned, outcomes, evalQueryResult, evalErrorMessage, evaluated,
          membership, workerNodeList, sourceIndex, targetIndex,
          connectionToSourceNode, healthRows, sourceLog, probeLog, lastCheck>>

argVars == <<nodeNameArg, nodePortArg, commandArg, rsinfo, callBase>>
evalVars == <<evalQueryResult, evalErrorMessage, evaluated>>
healthVars == <<membership, workerNodeList, sourceIndex, targetIndex,
                connectionToSourceNode, healthRows, sourceLog, probeLog, lastCheck>>

\* connectionArray[i] == NULL
NoConnection == 0

\* the tuple descriptor master_run_on_worker requires
ExpectedDesc == <<TEXTOID, INT4OID, BOOLOID, TEXTOID>>

\* the locals of one call, before anything ran
CallStart ==
    /\ pc = "call"
    /\ commandIndex = 1
    /\ nodeNameArray = <<>>
    /\ nodePortArray = <<>>
    /\ commandStringArray = <<>>
    /\ commandCount = 0
    /\ statusArray = <<>>
    /\ resultArray = <<>>
    /\ connectionArray = <<>>
    /\ finishedCount = 0
    /\ connection = NoConnection
    /\ busyPolls = <<>>
    /\ InterruptPending = FALSE
    /\ errorRaised = ""
    /\ setResult = <<>>
    /\ outcomes = <<>>

\* the evaluator under test is not part of a master_run_on_worker session
EvalIdle ==
    /\ evalQueryResult = PGresult("PGRES_COMMAND_OK", "", 0, 0, TRUE, "")
    /\ evalErrorMessage = ErrorMessage(TRUE, <<>>)
    /\ evaluated = <<>>

\* citus_check_cluster_node_health is not part of a master_run_on_worker session
HealthIdle ==
    /\ membership = <<>>
    /\ workerNodeList = <<>>
    /\ sourceIndex = 1
    /\ targetIndex = 1
    /\ connectionToSourceNode = NoConnection
    /\ healthRows = <<>>
    /\ sourceLog = <<>>
    /\ probeLog = <<>>
    /\ lastCheck = <<>>

\* argument arrays of equal length, drawn from CommandPool
EqualArrays ==
    \E k \in 0..MaxCommands : \E batch \in [1..k -> CommandPool] :
        /\ nodeNameArg = [i \in 1..k |-> batch[i][1]]
        /\ nodePortArg = [i \in 1..k |-> batch[i][2]]
        /\ commandArg = [i \in 1..k |-> batch[i][3]]

\* argument arrays whose lengths differ
UnequalArrays ==
    \E kn, kp, kc \in 0..MaxCommands :
        /\ kn # kp \/ kn # kc
        /\ nodeNameArg = [i \in 1..kn |-> IF i % 2 = 1 THEN "w1" ELSE "w2"]
        /\ nodePortArg = [i \in 1..kp |-> IF i % 2 = 1 THEN 57637 ELSE 57638]
        /\ commandArg = [i \in 1..kc |-> "SELECT 1"]

\* result contexts a set-returning function can be called in
ResultInfos ==
    { [present |-> TRUE, allowedMaterialize |-> TRUE, expectedDesc |-> ExpectedDesc],
      [present |-> FALSE, allowedMaterialize |-> FALSE, expectedDesc |-> <<>>],
      [present |-> TRUE, allowedMaterialize |-> FALSE, expectedDesc |-> ExpectedDesc],
      [present |-> TRUE, allowedMaterialize |-> TRUE,
       expectedDesc |-> <<TEXTOID, INT4OID, BOOLOID>>],
      [present |-> TRUE, allowedMaterialize |-> TRUE,
       expectedDesc |-> <<TEXTOID, INT4OID, TEXTOID, BOOLOID>>] }

Init ==
    /\ \/ EqualArrays /\ rsinfo = [present |-> TRUE, allowedMaterialize |-> TRUE,
                                   expectedDesc |-> ExpectedDesc]
       \/ UnequalArrays /\ rsinfo \in ResultInfos
       \/ /\ nodeNameArg = <<"w1">> /\ nodePortArg = <<57637>>
          /\ commandArg = <<"SELECT 1">>
          /\ rsinfo \in ResultInfos
    /\ parallelArg \in BOOLEAN
    /\ CallStart
    /\ conns = <<>>
    /\ callBase = 0
    /\ returned = {}
    /\ EvalIdle
    /\ HealthIdle

(* ------------------------ connection handles -------------------------- *)

\* StartNodeConnection: a new MultiConnection, its handshake under way
StartNodeConnection(flags, nodeName, nodePort) ==
    [flags |-> flags, nodeName |-> nodeName, nodePort |-> nodePort,
     status |-> "CONNECTION_STARTED", established |-> FALSE,
     command |-> "", sends |-> 0, closed |-> 0]

\* FinishConnectionEstablishment: the handshake completes or fails
FinishConnectionEstablishment(c) ==
    IF c.nodeName = "down"
    THEN [c EXCEPT !.status = "CONNECTION_BAD"]
    ELSE [c EXCEPT !.status = "CONNECTION_OK", !.established = TRUE]

\* SendRemoteCommand: 0 when the command could not be sent
SendRemoteCommand(c, queryString) ==
    IF c.status # "CONNECTION_OK" \/ c.nodeName = "nosend" THEN 0 ELSE 1

\* the connection after SendRemoteCommand was called on it
AfterSend(c, queryString) ==
    [c EXCEPT !.sends = @ + 1,
              !.command = IF SendRemoteCommand(c, queryString) # 0
                          THEN queryString ELSE @,
              !.status = IF c.nodeName = "lost" /\ SendRemoteCommand(c, queryString) # 0
                         THEN "CONNECTION_BAD" ELSE @]

CloseConnection(c) == [c EXCEPT !.closed = @ + 1]

\* a connection that was established and not closed since
IsOpen(c) == c.established /\ c.closed = 0

\* "<prefix>%s:%d"
HostPortMessage(prefix, nodeName, nodePort) ==
    <<prefix, nodeName, ":", ToString(nodePort)>>

(* ---------------------------- cancellation ---------------------------- *)

\* a cancel request arrives while the call runs
RaiseInterrupt ==
    /\ pc \notin {"done", "error", "idle", "evaluate"}
    /\ ~InterruptPending
    /\ InterruptPending' = TRUE
    /\ UNCHANGED <<argVars, evalVars, healthVars, parallelArg, pc, commandIndex, nodeNameArray,
                   nodePortArray, commandStringArray, commandCount, statusArray,
                   resultArray, connectionArray, finishedCount, connection, conns,
                   busyPolls, errorRaised, setResult, returned, outcomes>>

\* CHECK_FOR_INTERRUPTS(): raises the ERROR of a pending cancel request, else
\* execution goes on at nextPc with loop variable nextIndex
CheckForInterrupts(nextPc, nextIndex) ==
    IF InterruptPending
    THEN /\ pc' = "error"
         /\ errorRaised' = "canceling statement due to user request"
         /\ InterruptPending' = FALSE
         /\ UNCHANGED commandIndex
    ELSE /\ pc' = nextPc
         /\ commandIndex' = nextIndex
         /\ UNCHANGED <<InterruptPending, errorRaised>>

(* ------------------------ master_run_on_worker ------------------------ *)

\* faulty variant: only an overrun of the port and command arrays is rejected
ParseCommandParametersErrorOverrunOnly ==
    IF Len(nodeNameArg) > Len(nodePortArg) \/ Len(nodeNameArg) > Len(commandArg)
    THEN "expected same number of node name, port, and query string"
    ELSE ""

\* ParseCommandParameters: the ERROR it raises, "" if none
ParseCommandParametersError ==
    IF Len(nodeNameArg) # Len(nodePortArg) \/ Len(nodeNameArg) # Len(commandArg)
    THEN "expected same number of node name, port, and query string"
    ELSE ""

\* faulty variant: only the number of columns is checked
TupleDescriptorOkCountOnly(tupleDescriptor) ==
    ~ (Len(tupleDescriptor) # 4)

\* the check of the requested tuple descriptor
TupleDescriptorOk(tupleDescriptor) ==
    ~ (\/ Len(tupleDescriptor) # 4
       \/ tupleDescriptor[1] # TEXTOID
       \/ tupleDescriptor[2] # INT4OID
       \/ tupleDescriptor[3] # BOOLOID
       \/ tupleDescriptor[4] # TEXTOID)

\* the ERROR master_run_on_worker raises before it executes anything, "" if none
EntryError ==
    IF ~rsinfo.present \/ ~rsinfo.allowedMaterialize
    THEN "materialize mode required, but it is not allowed in this context"
    ELSE IF ParseCommandParametersError # ""
    THEN ParseCommandParametersError
    ELSE IF ~TupleDescriptorOk(rsinfo.expectedDesc)
    THEN "query-specified return tuple and function return type are not compatible"
    ELSE ""

\* for (commandIndex = 0; commandIndex < commandCount; ...): the loops of the
\* executors have a first iteration
LoopEntered(count) == 0 < count

\* faulty variant: the loop ends as soon as one slot has finished
PollLoopConditionNoneFinished(finished, count) == finished = 0

\* faulty variant: the loop body runs once more when all slots have finished
PollLoopConditionInclusive(finished, count) == finished <= count

\* while (finishedCount < commandCount)
PollLoopCondition(finished, count) == finished < count

\* master_run_on_worker up to the call of an executor
RunOnWorkerEntry ==
    /\ pc = "call"
    /\ IF EntryError # ""
       THEN /\ pc' = "error"
            /\ errorRaised' = EntryError
            /\ UNCHANGED <<nodeNameArray, nodePortArray, commandStringArray,
                           commandCount, statusArray, resultArray, connectionArray,
                           busyPolls, outcomes>>
       ELSE LET count == Len(nodeNameArg) IN
            /\ nodeNameArray' = [index \in 1..count |-> nodeNameArg[index]]
            /\ nodePortArray' = [index \in 1..count |-> nodePortArg[index]]
            /\ commandStringArray' = [index \in 1..count |-> commandArg[index]]
            /\ commandCount' = count
            /\ statusArray' = [index \in 1..count |-> FALSE]
            /\ resultArray' = [index \in 1..count |-> <<>>]
            /\ connectionArray' = [index \in 1..count |-> NoConnection]
            /\ busyPolls' = [index \in 1..count |-> 0]
            /\ outcomes' = [index \in 1..count |-> <<>>]
            /\ pc' = IF parallelArg
                     THEN IF LoopEntered(count) THEN "par_start"
                          ELSE IF PollLoopCondition(finishedCount, count)
                          THEN "par_poll" ELSE "store"
                     ELSE IF LoopEntered(count) THEN "seq_connect" ELSE "store"
            /\ UNCHANGED errorRaised
    /\ UNCHANGED <<argVars, evalVars, healthVars, parallelArg, commandIndex, finishedCount,
                   connection, conns, InterruptPending, setResult, returned>>

(* ------------------------ sequential executor ------------------------- *)

\* faulty variant: the connection may come from the pool
SeqConnectionFlagsPooled == {}

\* ExecuteRemoteQueryOrCommand: connectionFlags, the set of flags that are set
SeqConnectionFlags == {"FORCE_NEW_CONNECTION"}

\* faulty variant: a failed command ends the loop
SeqStoreStatusStopOnFailure(success, event) ==
    /\ statusArray' = [statusArray EXCEPT ![commandIndex] = success]
    /\ outcomes' = [outcomes EXCEPT ![commandIndex] = Append(@, event)]
    /\ IF success /\ commandIndex < commandCount
       THEN CheckForInterrupts("seq_connect", commandIndex + 1)
       ELSE CheckForInterrupts("store", 1)

\* ExecuteCommandsAndStoreResults, after ExecuteRemoteQueryOrCommand returned
\* success for the running command: store it, serve interrupts, loop
SeqStoreStatus(success, event) ==
    /\ statusArray' = [statusArray EXCEPT ![commandIndex] = success]
    /\ outcomes' = [outcomes EXCEPT ![commandIndex] = Append(@, event)]
    /\ IF commandIndex < commandCount
       THEN CheckForInterrupts("seq_connect", commandIndex + 1)
       ELSE CheckForInterrupts("store", 1)

\* ExecuteRemoteQueryOrCommand: GetNodeConnection and the check of its status
SeqConnect ==
    /\ pc = "seq_connect"
    /\ LET nodeName == nodeNameArray[commandIndex]
           nodePort == nodePortArray[commandIndex]
           c == FinishConnectionEstablishment(
                    StartNodeConnection(SeqConnectionFlags, nodeName, nodePort))
       IN /\ conns' = Append(conns, c)
          /\ IF c.status # "CONNECTION_OK"
             THEN /\ resultArray' =
                        [resultArray EXCEPT ![commandIndex] =
                            @ \o HostPortMessage("failed to connect to ",
                                                 nodeName, nodePort)]
                  /\ SeqStoreStatus(FALSE, "connect failure")
                  /\ UNCHANGED connection
             ELSE /\ connection' = Len(conns) + 1
                  /\ pc' = "seq_send"
                  /\ UNCHANGED <<resultArray, statusArray, outcomes, commandIndex,
                                 InterruptPending, errorRaised>>
    /\ UNCHANGED <<argVars, evalVars, healthVars, parallelArg, nodeNameArray, nodePortArray,
                   commandStringArray, commandCount, connectionArray, finishedCount,
                   busyPolls, setResult, returned>>

\* ExecuteRemoteQueryOrCommand: SendRemoteCommand
SeqSend ==
    /\ pc = "seq_send"
    /\ LET nodeName == nodeNameArray[commandIndex]
           nodePort == nodePortArray[commandIndex]
           queryString == commandStringArray[commandIndex]
       IN /\ conns' = [conns EXCEPT ![connection] = AfterSend(@, queryString)]
          /\ IF SendRemoteCommand(conns[connection], queryString) = 0
             THEN /\ resultArray' =
                        [resultArray EXCEPT ![commandIndex] =
                            @ \o HostPortMessage("failed to send query to ",
                                                 nodeName, nodePort)]
                  /\ SeqStoreStatus(FALSE, "send failure")
                  /\ connection' = NoConnection
             ELSE /\ pc' = "seq_result"
                  /\ UNCHANGED <<resultArray, statusArray, outcomes, commandIndex,
                                 InterruptPending, errorRaised, connection>>
    /\ UNCHANGED <<argVars, evalVars, healthVars, parallelArg, nodeNameArray, nodePortArray,
                   commandStringArray, commandCount, connectionArray, finishedCount,
                   busyPolls, setResult, returned>>

\* ExecuteRemoteQueryOrCommand: GetRemoteCommandResult, EvaluateQueryResult,
\* CloseConnection
SeqGetResult ==
    /\ pc = "seq_result"
    /\ LET c == conns[connection]
           evaluation == EvaluateQueryResult(
                             ConnErrorMessage(c.nodeName, c.command),
                             BlockingResult(c.nodeName, c.command),
                             resultArray[commandIndex])
       IN /\ resultArray' = [resultArray EXCEPT ![commandIndex] = evaluation.result]
          /\ conns' = [conns EXCEPT ![connection] = CloseConnection(@)]
          /\ SeqStoreStatus(evaluation.success, "result")
    /\ connection' = NoConnection
    /\ UNCHANGED <<argVars, evalVars, healthVars, parallelArg, nodeNameArray, nodePortArray,
                   commandStringArray, commandCount, connectionArray, finishedCount,
                   busyPolls, setResult, returned>>

\* GetRemoteCommandResult is called with raiseInterrupts = true: a cancel
\* request that arrives while it waits is raised from inside it
SeqInterruptedWaiting ==
    /\ pc = "seq_result"
    /\ InterruptPending
    /\ pc' = "error"
    /\ errorRaised' = "canceling statement due to user request"
    /\ InterruptPending' = FALSE
    /\ UNCHANGED <<argVars, evalVars, healthVars, parallelArg, commandIndex, nodeNameArray,
                   nodePortArray, commandStringArray, commandCount, statusArray,
                   resultArray, connectionArray, finishedCount, connection, conns,
                   busyPolls, setResult, returned, outcomes>>

(* ------------------------- parallel executor -------------------------- *)

\* PQconsumeInput: 0 when reading from the connection failed
PQconsumeInput(c) == IF c.nodeName = "noinput" THEN 0 ELSE 1

\* faulty variant: *resultStatus keeps the slot's stored status when the
\* transport fails
GetConnectionStatusAndResultStatusKept(c, isBusy, queryResultString) ==
    IF c.status = "CONNECTION_BAD"
    THEN [finished |-> TRUE, resultStatus |-> TRUE,
          result |-> <<>> \o <<"connection lost">>]
    ELSE IF PQconsumeInput(c) = 0
    THEN [finished |-> TRUE, resultStatus |-> TRUE,
          result |-> <<>> \o <<"query result unavailable">>]
    ELSE IF isBusy
    THEN [finished |-> FALSE, resultStatus |-> FALSE, result |-> <<>>]
    ELSE LET evaluation == EvaluateQueryResult(
                               ConnErrorMessage(c.nodeName, c.command),
                               RemoteResult(c.command), <<>>)
         IN [finished |-> TRUE, resultStatus |-> evaluation.success,
             result |-> evaluation.result]

\* faulty variant: a failure of PQconsumeInput goes unnoticed
GetConnectionStatusAndResultInputIgnored(c, isBusy, queryResultString) ==
    IF c.status = "CONNECTION_BAD"
    THEN [finished |-> TRUE, resultStatus |-> FALSE,
          result |-> <<>> \o <<"connection lost">>]
    ELSE IF isBusy
    THEN [finished |-> FALSE, resultStatus |-> FALSE, result |-> <<>>]
    ELSE LET evaluation == EvaluateQueryResult(
                               ConnErrorMessage(c.nodeName, c.command),
                               RemoteResult(c.command), <<>>)
         IN [finished |-> TRUE, resultStatus |-> evaluation.success,
             result |-> evaluation.result]

\* returns finished, *resultStatus and the new queryResultString
GetConnectionStatusAndResult(c, isBusy, queryResultString) ==
    IF c.status = "CONNECTION_BAD"
    THEN [finished |-> TRUE, resultStatus |-> FALSE,
          result |-> <<>> \o <<"connection lost">>]
    ELSE IF PQconsumeInput(c) = 0
    THEN [finished |-> TRUE, resultStatus |-> FALSE,
          result |-> <<>> \o <<"query result unavailable">>]
    ELSE IF isBusy
    THEN [finished |-> FALSE, resultStatus |-> FALSE, result |-> <<>>]
    ELSE LET evaluation == EvaluateQueryResult(
                               ConnErrorMessage(c.nodeName, c.command),
                               RemoteResult(c.command), <<>>)
         IN [finished |-> TRUE, resultStatus |-> evaluation.success,
             result |-> evaluation.result]

\* faulty variant: the slot keeps its connection
ReleaseSlotForgotten(array, index) == array

\* connectionArray[commandIndex] = NULL
ReleaseSlot(array, index) == [array EXCEPT ![index] = NoConnection]

\* faulty variant: a finished slot is not counted
CountFinishedSlotForgotten(finished) == finished

\* finishedCount++
CountFinishedSlot(finished) == finished + 1

\* faulty variant: a phase moves on after its first command
BatchLoopEndsEarly(index, count) == TRUE

\* for (commandIndex = 0; commandIndex < commandCount; commandIndex++) of the
\* start, establish and send phases: the phase ends after the last command
BatchLoopEnds(index, count) == index = count

\* ExecuteCommandsInParallelAndStoreResults: connectionFlags
ParConnectionFlags == {"FORCE_NEW_CONNECTION"}

\* faulty variant: the sweep stops at a slot that is still busy
SweepEndsAtBusy(index, count, queryFinished) == index = count \/ ~queryFinished

\* for (commandIndex = 0; commandIndex < commandCount; commandIndex++): the
\* sweep ends after the last slot, whatever the slot's poll gave
SweepEnds(index, count, queryFinished) == index = count

\* loop "start connections asynchronously", one iteration
ParStart ==
    /\ pc = "par_start"
    /\ conns' = Append(conns, StartNodeConnection(ParConnectionFlags,
                                                  nodeNameArray[commandIndex],
                                                  nodePortArray[commandIndex]))
    /\ connectionArray' = [connectionArray EXCEPT ![commandIndex] = Len(conns) + 1]
    /\ IF BatchLoopEnds(commandIndex, commandCount)
       THEN commandIndex' = 1 /\ pc' = "par_establish"
       ELSE commandIndex' = commandIndex + 1 /\ UNCHANGED pc
    /\ UNCHANGED <<argVars, evalVars, healthVars, parallelArg, nodeNameArray, nodePortArray,
                   commandStringArray, commandCount, statusArray, resultArray,
                   finishedCount, connection, busyPolls, InterruptPending,
                   errorRaised, setResult, returned, outcomes>>

\* loop "establish connections", one iteration
ParEstablish ==
    /\ pc = "par_establish"
    /\ LET id == connectionArray[commandIndex]
           c == FinishConnectionEstablishment(conns[id])
       IN /\ conns' = [conns EXCEPT ![id] = c]
          /\ IF c.status # "CONNECTION_OK"
             THEN /\ resultArray' =
                        [resultArray EXCEPT ![commandIndex] =
                            @ \o HostPortMessage("failed to connect to ",
                                                 nodeNameArray[commandIndex],
                                                 nodePortArray[commandIndex])]
                  /\ statusArray' = [statusArray EXCEPT ![commandIndex] = FALSE]
                  /\ connectionArray' =
                        ReleaseSlot(connectionArray, commandIndex)
                  /\ finishedCount' = CountFinishedSlot(finishedCount)
                  /\ outcomes' = [outcomes EXCEPT ![commandIndex] =
                                     Append(@, "connect failure")]
             ELSE /\ statusArray' = [statusArray EXCEPT ![commandIndex] = TRUE]
                  /\ UNCHANGED <<resultArray, connectionArray, finishedCount,
                                 outcomes>>
    /\ IF BatchLoopEnds(commandIndex, commandCount)
       THEN commandIndex' = 1 /\ pc' = "par_send"
       ELSE commandIndex' = commandIndex + 1 /\ UNCHANGED pc
    /\ UNCHANGED <<argVars, evalVars, healthVars, parallelArg, nodeNameArray, nodePortArray,
                   commandStringArray, commandCount, connection, busyPolls,
                   InterruptPending, errorRaised, setResult, returned>>

\* loop "send queries at once", one iteration; after the last one the poll loop
\* is entered if its condition holds
ParSend ==
    /\ pc = "par_send"
    /\ LET id == connectionArray[commandIndex]
           queryString == commandStringArray[commandIndex]
       IN IF id = NoConnection
          THEN UNCHANGED <<conns, resultArray, statusArray, connectionArray,
                           finishedCount, outcomes>>
          ELSE IF SendRemoteCommand(conns[id], queryString) = 0
          THEN /\ conns' = [conns EXCEPT ![id] =
                               CloseConnection(AfterSend(@, queryString))]
               /\ resultArray' =
                     [resultArray EXCEPT ![commandIndex] =
                         StoreErrorMessage(
                             ConnErrorMessage(conns[id].nodeName, queryString), @)]
               /\ statusArray' = [statusArray EXCEPT ![commandIndex] = FALSE]
               /\ connectionArray' =
                     ReleaseSlot(connectionArray, commandIndex)
               /\ finishedCount' = CountFinishedSlot(finishedCount)
               /\ outcomes' = [outcomes EXCEPT ![commandIndex] =
                                  Append(@, "send failure")]
          ELSE /\ conns' = [conns EXCEPT ![id] = AfterSend(@, queryString)]
               /\ UNCHANGED <<resultArray, statusArray, connectionArray,
                              finishedCount, outcomes>>
    /\ IF BatchLoopEnds(commandIndex, commandCount)
       THEN /\ commandIndex' = 1
            /\ pc' = IF PollLoopCondition(finishedCount', commandCount)
                     THEN "par_poll" ELSE "store"
       ELSE commandIndex' = commandIndex + 1 /\ UNCHANGED pc
    /\ UNCHANGED <<argVars, evalVars, healthVars, parallelArg, nodeNameArray, nodePortArray,
                   commandStringArray, commandCount, connection, busyPolls,
                   InterruptPending, errorRaised, setResult, returned>>

\* loop "check for query results", one slot of one sweep; a sweep over no
\* slots is over at once
ParPoll ==
    /\ pc = "par_poll"
    /\ LET id == IF LoopEntered(commandCount)
                 THEN connectionArray[commandIndex]
                 ELSE NoConnection
       IN
       IF id = NoConnection
       THEN UNCHANGED <<conns, resultArray, statusArray, connectionArray,
                        finishedCount, outcomes, busyPolls>>
       ELSE \E isBusy \in BOOLEAN :
            /\ isBusy => busyPolls[commandIndex] < MaxBusy
            /\ LET got == GetConnectionStatusAndResult(conns[id], isBusy,
                                                       resultArray[commandIndex])
               IN /\ resultArray' = [resultArray EXCEPT ![commandIndex] = got.result]
                  /\ IF got.finished
                     THEN /\ finishedCount' = CountFinishedSlot(finishedCount)
                          /\ statusArray' = [statusArray EXCEPT ![commandIndex] =
                                                got.resultStatus]
                          /\ connectionArray' =
                                ReleaseSlot(connectionArray, commandIndex)
                          /\ conns' = [conns EXCEPT ![id] = CloseConnection(@)]
                          /\ outcomes' = [outcomes EXCEPT ![commandIndex] =
                                             Append(@, "result")]
                          /\ UNCHANGED busyPolls
                     ELSE /\ busyPolls' = [busyPolls EXCEPT ![commandIndex] = @ + 1]
                          /\ UNCHANGED <<finishedCount, statusArray, connectionArray,
                                         conns, outcomes>>
    /\ IF \/ ~LoopEntered(commandCount)
          \/ SweepEnds(commandIndex, commandCount,
                       connectionArray'[commandIndex] = NoConnection)
       THEN commandIndex' = 1 /\ pc' = "par_check"
       ELSE commandIndex' = commandIndex + 1 /\ UNCHANGED pc
    /\ UNCHANGED <<argVars, evalVars, healthVars, parallelArg, nodeNameArray, nodePortArray,
                   commandStringArray, commandCount, connection, InterruptPending,
                   errorRaised, setResult, returned>>

\* end of one sweep: CHECK_FOR_INTERRUPTS, the sleep, and the loop condition
ParCheck ==
    /\ pc = "par_check"
    /\ IF PollLoopCondition(finishedCount, commandCount)
       THEN CheckForInterrupts("par_poll", 1)
       ELSE CheckForInterrupts("store", 1)
    /\ UNCHANGED <<argVars, evalVars, healthVars, parallelArg, nodeNameArray, nodePortArray,
                   commandStringArray, commandCount, statusArray, resultArray,
                   connectionArray, finishedCount, connection, conns, busyPolls,
                   setResult, returned, outcomes>>

(* ----------------------------- result set ----------------------------- *)

\* faulty variant: the rows are emitted from the last command to the first
CreateTupleStoreBackwards(nodeNames, nodePorts, statuses, results, count) ==
    [index \in 1..count |->
        [nodeName |-> nodeNames[count + 1 - index],
         nodePort |-> nodePorts[count + 1 - index],
         success |-> statuses[count + 1 - index],
         result |-> results[count + 1 - index]]]

CreateTupleStore(nodeNames, nodePorts, statuses, results, count) ==
    [index \in 1..count |->
        [nodeName |-> nodeNames[index], nodePort |-> nodePorts[index],
         success |-> statuses[index], result |-> results[index]]]

\* master_run_on_worker after the executor returned
RunOnWorkerReturn ==
    /\ pc = "store"
    /\ setResult' = CreateTupleStore(nodeNameArray, nodePortArray, statusArray,
                                     resultArray, commandCount)
    /\ returned' = returned \cup {[parallel |-> parallelArg, rows |-> setResult']}
    /\ pc' = "done"
    /\ UNCHANGED <<argVars, evalVars, healthVars, parallelArg, commandIndex, nodeNameArray,
                   nodePortArray, commandStringArray, commandCount, statusArray,
                   resultArray, connectionArray, finishedCount, connection, conns,
                   busyPolls, InterruptPending, errorRaised, outcomes>>

\* the session calls master_run_on_worker again, with the same arrays and the
\* other execution mode; nothing but the connections survives the first call
NextCall ==
    /\ pc = "done"
    /\ \A r \in returned : r.parallel = parallelArg
    /\ parallelArg' = ~parallelArg
    /\ pc' = "call"
    /\ commandIndex' = 1
    /\ nodeNameArray' = <<>>
    /\ nodePortArray' = <<>>
    /\ commandStringArray' = <<>>
    /\ commandCount' = 0
    /\ statusArray' = <<>>
    /\ resultArray' = <<>>
    /\ connectionArray' = <<>>
    /\ finishedCount' = 0
    /\ connection' = NoConnection
    /\ busyPolls' = <<>>
    /\ InterruptPending' = FALSE
    /\ errorRaised' = ""
    /\ setResult' = <<>>
    /\ outcomes' = <<>>
    /\ callBase' = Len(conns)
    /\ UNCHANGED <<nodeNameArg, nodePortArg, commandArg, rsinfo, evalVars, healthVars, conns,
                   returned>>

Next ==
    \/ RaiseInterrupt
    \/ RunOnWorkerEntry
    \/ SeqConnect
    \/ SeqSend
    \/ SeqGetResult
    \/ SeqInterruptedWaiting
    \/ ParStart
    \/ ParEstablish
    \/ ParSend
    \/ ParPoll
    \/ ParCheck
    \/ RunOnWorkerReturn
    \/ NextCall

Spec == Init /\ [][Next]_vars

\* the backend keeps running: a sweep of the poll loop that can go on does go
\* on, and the sleep between sweeps is bounded
SpecFair == Spec /\ WF_vars(ParPoll) /\ WF_vars(ParCheck)

(* --------------------- the evaluator on its own ----------------------- *)

\* every text of at most n tokens over the alphabet
RECURSIVE TextsUpTo(_, _)
TextsUpTo(alphabet, n) ==
    IF n = 0
    THEN {<<>>}
    ELSE LET shorter == TextsUpTo(alphabet, n - 1)
         IN shorter \cup {Append(t, a) : t \in shorter, a \in alphabet}

\* the responses and error messages the evaluator is applied to
EvalResults ==
    { PGresult(status, "CREATE TABLE", ntuples, nfields, isnull, "1") :
        status \in {"PGRES_COMMAND_OK", "PGRES_TUPLES_OK", "PGRES_FATAL_ERROR"},
        ntuples \in 0..MaxTuples, nfields \in 0..MaxFields, isnull \in BOOLEAN }

EvalMessages ==
    {ErrorMessage(TRUE, <<>>)} \cup
    {ErrorMessage(FALSE, t) : t \in TextsUpTo({"ERROR:  x", "\n"}, MaxMsgLen)}

InitEval ==
    /\ nodeNameArg = <<>> /\ nodePortArg = <<>> /\ commandArg = <<>>
    /\ rsinfo = [present |-> FALSE, allowedMaterialize |-> FALSE, expectedDesc |-> <<>>]
    /\ parallelArg = FALSE
    /\ pc = "evaluate"
    /\ commandIndex = 1
    /\ nodeNameArray = <<>> /\ nodePortArray = <<>> /\ commandStringArray = <<>>
    /\ commandCount = 0
    /\ statusArray = <<>> /\ resultArray = <<>> /\ connectionArray = <<>>
    /\ finishedCount = 0
    /\ connection = NoConnection
    /\ conns = <<>>
    /\ callBase = 0
    /\ busyPolls = <<>>
    /\ InterruptPending = FALSE
    /\ errorRaised = ""
    /\ setResult = <<>>
    /\ returned = {}
    /\ outcomes = <<>>
    /\ evalQueryResult \in EvalResults
    /\ evalErrorMessage \in EvalMessages
    /\ evaluated = <<>>
    /\ HealthIdle

\* EvaluateQueryResult applied to a fresh queryResultString
Evaluate ==
    /\ pc = "evaluate"
    /\ evaluated' = <<EvaluateQueryResult(evalErrorMessage, evalQueryResult, <<>>)>>
    /\ pc' = "idle"
    /\ UNCHANGED <<argVars, parallelArg, commandIndex, nodeNameArray, nodePortArray,
                   commandStringArray, commandCount, statusArray, resultArray,
                   connectionArray, finishedCount, connection, conns, busyPolls,
                   InterruptPending, errorRaised, setResult, returned, outcomes,
                   evalQueryResult, evalErrorMessage, healthVars>>

NextEval == Evaluate

SpecEval == InitEval /\ [][NextEval]_vars

(* ----------------------- connectivity checks ------------------------- *)

\* largest number of nodes ActiveReadableNodeList returns
MaxNodes == 2

\* the nodes cluster membership is drawn from
NodePool ==
    { [workerName |-> "w1", workerPort |-> 57637],
      [workerName |-> "w1", workerPort |-> 57638],
      [workerName |-> "w2", workerPort |-> 57637] }

\* the node names, as strncmp orders them
NodeNames == <<"w1", "w2">>

NameRank(name) == CHOOSE i \in 1..Len(NodeNames) : NodeNames[i] = name

\* CompareWorkerNodes: by name, then by port; negative, zero or positive
CompareWorkerNodes(a, b) ==
    IF NameRank(a.workerName) # NameRank(b.workerName)
    THEN NameRank(a.workerName) - NameRank(b.workerName)
    ELSE a.workerPort - b.workerPort

\* SortList(list, CompareWorkerNodes), for a list of distinct nodes
SortList(list) ==
    [k \in 1..Len(list) |->
        CHOOSE node \in {list[i] : i \in 1..Len(list)} :
            Cardinality({i \in 1..Len(list) :
                            CompareWorkerNodes(list[i], node) < 0}) = k - 1]

\* faulty variant: the list is used as ActiveReadableNodeList returned it
SortedWorkerNodeListUnsorted(list) == list

\* StoreAllConnectivityChecks: workerNodeList after SortList
SortedWorkerNodeList(list) == SortList(list)

\* faulty variant: a source is not checked against itself
TargetWorkerNodesOthers(list, sourceNode) ==
    SelectSeq(list, LAMBDA node : node # sourceNode)

\* the list the inner loop of StoreAllConnectivityChecks walks for a source
TargetWorkerNodes(list, sourceNode) == list

GetConnectivityCheckCommand(nodeName, nodePort) ==
    <<"SELECT citus_check_connection_to_node('", nodeName, "', ",
      ToString(nodePort), ")">>

\* GetNodeConnection: StartNodeConnection and FinishConnectionEstablishment, to
\* a node that accepts the connection or not
GetNodeConnection(flags, nodeName, nodePort, reachable) ==
    [StartNodeConnection(flags, nodeName, nodePort) EXCEPT
        !.status = IF reachable THEN "CONNECTION_OK" ELSE "CONNECTION_BAD",
        !.established = reachable]

\* ExecuteOptionalRemoteCommand: the response status. behaviour is what the
\* remote end does with the command: "ok", "nosend" or "error"
ExecuteOptionalRemoteCommand(c, behaviour) ==
    IF c.status # "CONNECTION_OK" \/ behaviour = "nosend"
    THEN "QUERY_SEND_FAILED"
    ELSE IF behaviour = "error"
    THEN "RESPONSE_NOT_OKAY"
    ELSE "RESPONSE_OKAY"

\* faulty variant: only a failed send counts as a failed check
CheckConnectionToNodeSentIsEnough(nodeName, nodePort, link) ==
    LET checkConnection == GetNodeConnection({}, nodeName, nodePort, link # "down")
        responseStatus == ExecuteOptionalRemoteCommand(checkConnection, link)
    IN responseStatus # "QUERY_SEND_FAILED"

\* CheckConnectionToNode, run on a node whose link to nodeName:nodePort is
\* "ok", "down" (no connection), "nosend" or "error" (response not OK)
CheckConnectionToNode(nodeName, nodePort, link) ==
    LET checkConnection == GetNodeConnection({}, nodeName, nodePort, link # "down")
        responseStatus == ExecuteOptionalRemoteCommand(checkConnection, link)
    IN responseStatus = "RESPONSE_OKAY"

\* the text of a boolean in a PGresult, and ParseBoolField on it
BoolText(b) == IF b THEN "t" ELSE "f"
ParseBoolField(text) == text = "t"

\* faulty variant: an unknown status is stored as false
ConnectivityTupleNeverNull(sourceNode, targetNode, executionResult, resultText) ==
    [sourceName |-> sourceNode.workerName, sourcePort |-> sourceNode.workerPort,
     targetName |-> targetNode.workerName, targetPort |-> targetNode.workerPort,
     isNull |-> FALSE,
     success |-> IF executionResult # "RESPONSE_OKAY"
                 THEN FALSE
                 ELSE ParseBoolField(resultText)]

\* faulty variant: only a response that is not OK gives an unknown status
ConnectivityTupleSendIgnored(sourceNode, targetNode, executionResult, resultText) ==
    [sourceName |-> sourceNode.workerName, sourcePort |-> sourceNode.workerPort,
     targetName |-> targetNode.workerName, targetPort |-> targetNode.workerPort,
     isNull |-> executionResult = "RESPONSE_NOT_OKAY",
     success |-> IF executionResult = "RESPONSE_NOT_OKAY"
                 THEN FALSE
                 ELSE ParseBoolField(resultText)]

\* values[] and isNulls[] of one tuple of StoreAllConnectivityChecks
ConnectivityTuple(sourceNode, targetNode, executionResult, resultText) ==
    [sourceName |-> sourceNode.workerName, sourcePort |-> sourceNode.workerPort,
     targetName |-> targetNode.workerName, targetPort |-> targetNode.workerPort,
     isNull |-> executionResult # "RESPONSE_OKAY",
     success |-> IF executionResult # "RESPONSE_OKAY"
                 THEN FALSE
                 ELSE ParseBoolField(resultText)]

\* faulty variant: a failed probe ends the source's row of the matrix
TargetLoopEndsOnFailure(index, count, executionResult) ==
    index = count \/ executionResult # "RESPONSE_OKAY"

\* foreach_ptr(targetWorkerNode, workerNodeList): the inner loop ends after the
\* last target, whatever the probes gave
TargetLoopEnds(index, count, executionResult) == index = count

\* StoreAllConnectivityChecks: connectionFlags = 0, no flag is set
SourceConnectionFlags == {}

\* how a source behaves towards this node: it answers, refuses the connection,
\* answers every probe with an error, or drops the connection after one probe
SourceFates == {"ok", "down", "error", "drops"}

\* how a source's link to a target behaves when the source checks it
LinkFates == {"ok", "down", "nosend", "error"}

\* the variables of master_run_on_worker other than pc and conns
runVars == <<nodeNameArg, nodePortArg, commandArg, parallelArg, rsinfo,
             commandIndex, nodeNameArray, nodePortArray, commandStringArray,
             commandCount, statusArray, resultArray, connectionArray, finishedCount,
             connection, callBase, busyPolls, InterruptPending, errorRaised,
             setResult, returned, outcomes>>

\* no master_run_on_worker call is part of the session
RunOnWorkerIdle ==
    /\ nodeNameArg = <<>> /\ nodePortArg = <<>> /\ commandArg = <<>>
    /\ rsinfo = [present |-> FALSE, allowedMaterialize |-> FALSE, expectedDesc |-> <<>>]
    /\ parallelArg = FALSE
    /\ commandIndex = 1
    /\ nodeNameArray = <<>> /\ nodePortArray = <<>> /\ commandStringArray = <<>>
    /\ commandCount = 0
    /\ statusArray = <<>> /\ resultArray = <<>> /\ connectionArray = <<>>
    /\ finishedCount = 0
    /\ connection = NoConnection
    /\ callBase = 0
    /\ busyPolls = <<>>
    /\ InterruptPending = FALSE
    /\ errorRaised = ""
    /\ setResult = <<>>
    /\ returned = {}
    /\ outcomes = <<>>

\* the lists of distinct nodes ActiveReadableNodeList may return, in any order
Memberships ==
    UNION { { list \in [1..n -> NodePool] :
                \A i \in 1..n : \A j \in 1..n : i # j => list[i] # list[j] } :
            n \in 0..MaxNodes }

InitHealth ==
    /\ RunOnWorkerIdle
    /\ EvalIdle
    /\ conns = <<>>
    /\ pc = "health_call"
    /\ membership \in Memberships
    /\ workerNodeList = <<>>
    /\ sourceIndex = 1
    /\ targetIndex = 1
    /\ connectionToSourceNode = NoConnection
    /\ healthRows = <<>>
    /\ sourceLog = <<>>
    /\ probeLog = <<>>
    /\ lastCheck = <<>>

\* StoreAllConnectivityChecks: ActiveReadableNodeList and SortList
HealthStart ==
    /\ pc = "health_call"
    /\ workerNodeList' = SortedWorkerNodeList(membership)
    /\ pc' = IF Len(membership) = 0 THEN "health_done" ELSE "health_source"
    /\ UNCHANGED <<runVars, evalVars, conns, membership, sourceIndex, targetIndex,
                   connectionToSourceNode, healthRows, sourceLog, probeLog,
                   lastCheck>>

\* outer loop: GetNodeConnection to the source node
HealthConnect ==
    /\ pc = "health_source"
    /\ \E fate \in SourceFates :
          /\ conns' = Append(conns,
                             GetNodeConnection(SourceConnectionFlags,
                                               workerNodeList[sourceIndex].workerName,
                                               workerNodeList[sourceIndex].workerPort,
                                               fate # "down"))
          /\ sourceLog' = Append(sourceLog, fate)
    /\ connectionToSourceNode' = Len(conns) + 1
    /\ targetIndex' = 1
    /\ pc' = IF Len(TargetWorkerNodes(workerNodeList, workerNodeList[sourceIndex])) = 0
             THEN IF sourceIndex < Len(workerNodeList)
                  THEN "health_source" ELSE "health_done"
             ELSE "health_target"
    /\ sourceIndex' = IF pc' = "health_target" THEN sourceIndex ELSE sourceIndex + 1
    /\ UNCHANGED <<runVars, evalVars, membership, workerNodeList, healthRows,
                   probeLog, lastCheck>>

\* inner loop: one probe of the source about one target, and its tuple
HealthProbe ==
    /\ pc = "health_target"
    /\ LET sourceNode == workerNodeList[sourceIndex]
           targets == TargetWorkerNodes(workerNodeList, sourceNode)
           targetNode == targets[targetIndex]
           c == conns[connectionToSourceNode]
           fate == sourceLog[sourceIndex]
           command == GetConnectivityCheckCommand(targetNode.workerName,
                                                  targetNode.workerPort)
           executionResult ==
               ExecuteOptionalRemoteCommand(c, IF fate = "error" THEN "error" ELSE "ok")
           sent == executionResult # "QUERY_SEND_FAILED"
           ran == executionResult = "RESPONSE_OKAY"
       IN \E link \in LinkFates :
          /\ ~ran => link = "ok"
          /\ LET answer == CheckConnectionToNode(targetNode.workerName,
                                                 targetNode.workerPort, link)
                 resultText == IF ran THEN BoolText(answer) ELSE ""
             IN /\ healthRows' = Append(healthRows,
                                        ConnectivityTuple(sourceNode, targetNode,
                                                          executionResult, resultText))
                /\ probeLog' = Append(probeLog,
                                      [executionResult |-> executionResult,
                                       linkOk |-> ran /\ link = "ok",
                                       resultText |-> resultText])
                /\ lastCheck' = IF ran
                                THEN <<[nodeName |-> targetNode.workerName,
                                        nodePort |-> targetNode.workerPort,
                                        link |-> link, returned |-> answer]>>
                                ELSE lastCheck
          /\ conns' = [conns EXCEPT ![connectionToSourceNode] =
                          [@ EXCEPT !.sends = IF c.status = "CONNECTION_OK"
                                              THEN @ + 1 ELSE @,
                                    !.command = IF sent THEN command ELSE @,
                                    !.status = IF sent /\ fate = "drops"
                                               THEN "CONNECTION_BAD" ELSE @]]
          /\ IF TargetLoopEnds(targetIndex, Len(targets), executionResult)
             THEN /\ targetIndex' = 1
                  /\ sourceIndex' = sourceIndex + 1
                  /\ pc' = IF sourceIndex < Len(workerNodeList)
                           THEN "health_source" ELSE "health_done"
             ELSE /\ targetIndex' = targetIndex + 1
                  /\ UNCHANGED <<pc, sourceIndex>>
    /\ UNCHANGED <<runVars, evalVars, membership, workerNodeList,
                   connectionToSourceNode, sourceLog>>

NextHealth ==
    \/ HealthStart
    \/ HealthConnect
    \/ HealthProbe

SpecHealth == InitHealth /\ [][NextHealth]_vars

(* ------------------------------ claims -------------------------------- *)

RowIndexes == 1..Len(setResult)

\* the handshake to this node fails
Unreachable(nodeName, nodePort) ==
    FinishConnectionEstablishment(
        StartNodeConnection({"FORCE_NEW_CONNECTION"}, nodeName, nodePort)).status
    # "CONNECTION_OK"

\* the handshake succeeds and the command cannot be sent
SendFails(nodeName, nodePort, command) ==
    LET c == FinishConnectionEstablishment(
                 StartNodeConnection({"FORCE_NEW_CONNECTION"}, nodeName, nodePort))
    IN c.status = "CONNECTION_OK" /\ SendRemoteCommand(c, command) = 0

\* C1: when master_run_on_worker returns, in either mode, it returns as many
\* rows as there were input triples, and row i carries the node name and the
\* port of input triple i.
C1_RowsFollowInput ==
    pc = "done" =>
        /\ Len(setResult) = Len(nodeNameArg)
        /\ Len(setResult) = Len(nodePortArg)
        /\ Len(setResult) = Len(commandArg)
        /\ \A i \in RowIndexes :
              /\ setResult[i].nodeName = nodeNameArg[i]
              /\ setResult[i].nodePort = nodePortArg[i]

\* a parallel call returned two rows for different nodes, the second command
\* having completed a sweep before the first
C1_Witness ==
    /\ pc = "done"
    /\ parallelArg
    /\ Len(setResult) = 2
    /\ setResult[1].nodeName # setResult[2].nodeName
    /\ setResult[1].nodePort # setResult[2].nodePort
    /\ busyPolls[1] > 0
    /\ busyPolls[2] = 0
    /\ outcomes[2] = <<"result">>

\* C2: when the three argument arrays do not have the same length, the call
\* ends with an input validation ERROR, returns no rows, and has created no
\* connection (so nothing was sent anywhere).
C2_LengthMismatchRejected ==
    (/\ pc # "call"
     /\ Len(nodeNameArg) # Len(nodePortArg) \/ Len(nodeNameArg) # Len(commandArg))
    => /\ pc = "error"
       /\ errorRaised \in
             {"expected same number of node name, port, and query string",
              "materialize mode required, but it is not allowed in this context"}
       /\ (rsinfo.present /\ rsinfo.allowedMaterialize) =>
             errorRaised = "expected same number of node name, port, and query string"
       /\ setResult = <<>>
       /\ returned = {}
       /\ conns = <<>>

\* a call with one node name, two ports and two commands was rejected
C2_Witness ==
    /\ pc = "error"
    /\ Len(nodeNameArg) = 1
    /\ Len(nodePortArg) = 2
    /\ Len(commandArg) = 2
    /\ rsinfo.allowedMaterialize
    /\ errorRaised = "expected same number of node name, port, and query string"

\* what one command yields when it is the whole batch: the connect, send and
\* evaluation steps of its executor applied to that command alone
RunAlone(nodeName, nodePort, command, parallel) ==
    LET c == FinishConnectionEstablishment(
                 StartNodeConnection({"FORCE_NEW_CONNECTION"}, nodeName, nodePort))
        sent == AfterSend(c, command)
    IN IF c.status # "CONNECTION_OK"
       THEN [success |-> FALSE,
             result |-> HostPortMessage("failed to connect to ", nodeName, nodePort)]
       ELSE IF SendRemoteCommand(c, command) = 0
       THEN [success |-> FALSE,
             result |-> IF parallel
                        THEN StoreErrorMessage(ConnErrorMessage(nodeName, command),
                                               <<>>)
                        ELSE HostPortMessage("failed to send query to ",
                                             nodeName, nodePort)]
       ELSE IF parallel
       THEN LET got == GetConnectionStatusAndResult(sent, FALSE, <<>>)
            IN [success |-> got.resultStatus, result |-> got.result]
       ELSE EvaluateQueryResult(ConnErrorMessage(nodeName, command),
                                BlockingResult(nodeName, command), <<>>)

UnreachableIndexes ==
    {i \in 1..Len(nodeNameArg) : Unreachable(nodeNameArg[i], nodePortArg[i])}

ConnectFailureRows ==
    {i \in RowIndexes :
        /\ ~setResult[i].success
        /\ Len(setResult[i].result) > 0
        /\ Head(setResult[i].result) = "failed to connect to "}

\* C3: when exactly one target of a returned batch cannot be connected to, in
\* either mode, exactly one row is a failure whose text starts with "failed to
\* connect to", it is the row of that target, and every other row holds what
\* its own command yields when run alone.
C3_ConnectFailureIsolated ==
    (pc = "done" /\ Cardinality(UnreachableIndexes) = 1) =>
        /\ ConnectFailureRows = UnreachableIndexes
        /\ \A i \in RowIndexes \ UnreachableIndexes :
              [success |-> setResult[i].success, result |-> setResult[i].result]
              = RunAlone(nodeNameArg[i], nodePortArg[i], commandArg[i], parallelArg)

\* a batch of two returned whose first target is unreachable and whose second
\* command succeeded
C3_Witness ==
    /\ pc = "done"
    /\ Len(setResult) = 2
    /\ UnreachableIndexes = {1}
    /\ ~setResult[1].success
    /\ setResult[1].result = <<"failed to connect to ", "down", ":", "57637">>
    /\ setResult[2].success
    /\ setResult[2].result = <<"1">>

\* the connections created by the running call
CallConnections == {i \in 1..Len(conns) : i > callBase}

\* C4: every connection an executor opened is closed exactly once by the time
\* the executor is left, by its return or by an ERROR, and none is ever closed
\* twice. Stated for the connections whose handshake succeeded.
C4_ClosedExactlyOnce ==
    /\ \A i \in 1..Len(conns) : conns[i].closed <= 1
    /\ pc \in {"store", "done", "error"} =>
          \A i \in CallConnections :
              conns[i].established => conns[i].closed = 1

\* C5: a cancellation is never propagated to the caller while a connection of
\* the call is still open. Stated for the parallel executor, whose slots hold
\* the open connections when the poll loop serves the cancel request.
C5_NoCancelWithOpenConnection ==
    (/\ pc = "error"
     /\ errorRaised = "canceling statement due to user request"
     /\ parallelArg)
    => \A i \in CallConnections : ~IsOpen(conns[i])

\* no target of the batch breaks its connection after the command was sent
NoTransportError ==
    \A i \in 1..Len(nodeNameArg) : nodeNameArg[i] \notin {"lost", "noinput"}

\* C6: the same batch, with the same connect, send and result behaviour of every
\* target, returns the same (success, result) pair in every row in parallel and
\* in sequential mode.
C6_ModesAgree ==
    NoTransportError =>
        \A a \in returned : \A b \in returned :
            /\ Len(a.rows) = Len(b.rows)
            /\ \A i \in 1..Len(a.rows) :
                  /\ a.rows[i].success = b.rows[i].success
                  /\ a.rows[i].result = b.rows[i].result

\* C7: no command's status is recorded by two terminal events (connect
\* failure, send failure, result), and when an executor has returned every
\* command of the batch has exactly one recorded outcome.
C7_OneOutcomePerCommand ==
    /\ \A i \in DOMAIN outcomes : Len(outcomes[i]) <= 1
    /\ pc \in {"store", "done"} =>
          /\ DOMAIN outcomes = 1..Len(commandArg)
          /\ \A i \in DOMAIN outcomes : Len(outcomes[i]) = 1

\* a parallel call returned after a connect failure on its first command and a
\* result, found after a busy sweep, on its second
C7_Witness ==
    /\ pc = "done"
    /\ parallelArg
    /\ Len(setResult) = 2
    /\ outcomes[1] = <<"connect failure">>
    /\ outcomes[2] = <<"result">>
    /\ busyPolls[2] > 0

\* C8: in both executors a command whose connection was established and whose
\* text could not be sent gets the row (false, "failed to send query to
\* host:port"), and every command of the batch is still executed.
C8_SendFailureMessage ==
    pc = "done" =>
        \A i \in RowIndexes :
            SendFails(nodeNameArg[i], nodePortArg[i], commandArg[i]) =>
                /\ ~setResult[i].success
                /\ setResult[i].result =
                      HostPortMessage("failed to send query to ",
                                      nodeNameArg[i], nodePortArg[i])
                /\ \A j \in RowIndexes : Len(outcomes[j]) = 1

\* C9: for a rows-returned response the evaluator yields (false, "expected a
\* single column in query target") whenever the column count is not one, whatever
\* the row count, and (false, "expected a single row in query result") whenever
\* there is one column and more than one row.
C9_ShapeErrors ==
    (evaluated # <<>> /\ evalQueryResult.status = "PGRES_TUPLES_OK") =>
        /\ evalQueryResult.nfields # 1 =>
              evaluated[1] = [success |-> FALSE,
                              result |-> <<"expected a single column in query target">>]
        /\ (evalQueryResult.nfields = 1 /\ evalQueryResult.ntuples > 1) =>
              evaluated[1] = [success |-> FALSE,
                              result |-> <<"expected a single row in query result">>]

\* the evaluator was applied to a response of two columns and two rows
C9_Witness ==
    /\ evaluated # <<>>
    /\ evalQueryResult.status = "PGRES_TUPLES_OK"
    /\ evalQueryResult.nfields = 2
    /\ evalQueryResult.ntuples = 2
    /\ evaluated[1].result = <<"expected a single column in query target">>

\* line is text up to its first line break
IsFirstLine(line, text) ==
    /\ Len(line) <= Len(text)
    /\ \A k \in 1..Len(line) : line[k] = text[k] /\ line[k] # "\n"
    /\ Len(line) = Len(text) \/ text[Len(line) + 1] = "\n"

\* C10: for a response that is neither a completed command nor returned rows
\* the evaluator yields success = false and the error message cut at its first
\* line break, or the fallback text when there is no message.
C10_RemoteErrorText ==
    (/\ evaluated # <<>>
     /\ evalQueryResult.status \notin {"PGRES_COMMAND_OK", "PGRES_TUPLES_OK"})
    => /\ ~evaluated[1].success
       /\ evalErrorMessage.isNull =>
             evaluated[1].result = <<"An error occurred while running the query">>
       /\ ~evalErrorMessage.isNull =>
             IsFirstLine(evaluated[1].result, evalErrorMessage.text)

\* the evaluator was applied to an error response whose message has two lines
C10_Witness ==
    /\ evaluated # <<>>
    /\ evalQueryResult.status = "PGRES_FATAL_ERROR"
    /\ evalErrorMessage = ErrorMessage(FALSE, <<"ERROR:  x", "\n", "ERROR:  x">>)
    /\ evaluated[1].result = <<"ERROR:  x">>

\* the call of checkClusterHealth has returned its rows
HealthDone == pc = "health_done"

\* every node answers the controller and every link between nodes works
AllReachable ==
    /\ \A i \in 1..Len(sourceLog) : sourceLog[i] = "ok"
    /\ \A k \in 1..Len(probeLog) : probeLog[k].linkOk

\* the rows about the pair (source, target)
PairRows(sourceNode, targetNode) ==
    {k \in 1..Len(healthRows) :
        /\ healthRows[k].sourceName = sourceNode.workerName
        /\ healthRows[k].sourcePort = sourceNode.workerPort
        /\ healthRows[k].targetName = targetNode.workerName
        /\ healthRows[k].targetPort = targetNode.workerPort}

MemberNodes == {membership[i] : i \in 1..Len(membership)}

\* C11: when all N nodes are reachable from the controller and from each other,
\* checkClusterHealth returns N*N rows, one for every (source, target) pair,
\* source = target included, and every row has success = true
C11_FullMatrixAllTrue ==
    (HealthDone /\ AllReachable) =>
        /\ Len(healthRows) = Len(membership) * Len(membership)
        /\ \A sourceNode \in MemberNodes : \A targetNode \in MemberNodes :
              Cardinality(PairRows(sourceNode, targetNode)) = 1
        /\ \A k \in 1..Len(healthRows) :
              ~healthRows[k].isNull /\ healthRows[k].success

C11_Witness ==
    /\ HealthDone
    /\ AllReachable
    /\ Len(membership) = 2
    /\ Len(healthRows) = 4


\* the nodes of row k
SourceOf(k) == [workerName |-> healthRows[k].sourceName,
                workerPort |-> healthRows[k].sourcePort]
TargetOf(k) == [workerName |-> healthRows[k].targetName,
                workerPort |-> healthRows[k].targetPort]

\* what the controller met when it connected to the node and probed it
FateOf(node) ==
    IF \E i \in 1..Len(sourceLog) : workerNodeList[i] = node
    THEN sourceLog[CHOOSE i \in 1..Len(sourceLog) : workerNodeList[i] = node]
    ELSE "none"

\* C12: when the controller cannot reach a node, every row with that node as
\* source is unknown (null), and every row with it as target whose source the
\* controller reaches and probes is not unknown and carries the boolean that
\* source reported
C12_UnreachableSource ==
    \A k \in 1..Len(healthRows) :
        /\ FateOf(SourceOf(k)) = "down" => healthRows[k].isNull
        /\ (FateOf(TargetOf(k)) = "down" /\ FateOf(SourceOf(k)) = "ok") =>
              /\ ~healthRows[k].isNull
              /\ healthRows[k].success = (probeLog[k].resultText = "t")

C12_Witness ==
    /\ HealthDone
    /\ \E k \in 1..Len(healthRows) : \E l \in 1..Len(healthRows) :
          /\ FateOf(SourceOf(k)) = "down" /\ healthRows[k].isNull
          /\ FateOf(SourceOf(l)) = "ok" /\ TargetOf(l) = SourceOf(k)
          /\ ~healthRows[l].isNull /\ ~healthRows[l].success

\* C13: a cell is unknown (null) exactly when the probe of the source did not
\* come back with an OK response; otherwise it is the boolean the source
\* returned: an answer of false gives false, a failed probe never gives false
C13_UnknownIsNotFalse ==
    \A k \in 1..Len(healthRows) :
        /\ healthRows[k].isNull <=> probeLog[k].executionResult # "RESPONSE_OKAY"
        /\ ~healthRows[k].isNull =>
              healthRows[k].success = (probeLog[k].resultText = "t")

C13_Witness ==
    /\ \E k \in 1..Len(healthRows) :
          /\ probeLog[k].executionResult = "RESPONSE_OKAY"
          /\ probeLog[k].resultText = "f"
          /\ ~healthRows[k].isNull /\ ~healthRows[k].success
    /\ \E k \in 1..Len(healthRows) :
          /\ probeLog[k].executionResult = "RESPONSE_NOT_OKAY"
          /\ healthRows[k].isNull
    /\ \E k \in 1..Len(healthRows) :
          /\ probeLog[k].executionResult = "QUERY_SEND_FAILED"
          /\ healthRows[k].isNull

\* node a comes before node b in the (name, port) order
NodeBefore(a, b) ==
    \/ NameRank(a.workerName) < NameRank(b.workerName)
    \/ a.workerName = b.workerName /\ a.workerPort < b.workerPort

\* C14: rows come in nested sorted order: sources in (name, port) order, and
\* within a source the targets in (name, port) order; at the end the rows are
\* the pairs of member nodes, so the order is fixed by the set of nodes alone,
\* whatever order membership listed them in and whichever probes failed
C14_NestedSortedOrder ==
    /\ \A k \in 1..Len(healthRows) : \A l \in 1..Len(healthRows) :
          k < l => \/ NodeBefore(SourceOf(k), SourceOf(l))
                   \/ /\ SourceOf(k) = SourceOf(l)
                      /\ NodeBefore(TargetOf(k), TargetOf(l))
    /\ HealthDone =>
          {<<SourceOf(k), TargetOf(k)>> : k \in 1..Len(healthRows)}
              = MemberNodes \X MemberNodes

C14_Witness ==
    /\ HealthDone
    /\ Len(membership) = 2
    /\ NodeBefore(membership[2], membership[1])
    /\ \E k \in 1..Len(healthRows) : healthRows[k].isNull
    /\ Len(healthRows) = 4

\* C16: checkConnection returns true only if the connection was made, the
\* query was sent and the response was OK; a connection that cannot be made, a
\* query that cannot be sent and a response that is not OK all give false
C16_CheckConnectionRoundTrip ==
    \A i \in 1..Len(lastCheck) :
        lastCheck[i].returned <=> lastCheck[i].link = "ok"

C16_Witness ==
    \E i \in 1..Len(lastCheck) : lastCheck[i].link = "error" /\ ~lastCheck[i].returned


\* the caller's context cannot take a materialized result set
BadContext == ~rsinfo.present \/ ~rsinfo.allowedMaterialize

\* the expected output shape is not (text, integer, boolean, text)
BadShape == rsinfo.expectedDesc # <<TEXTOID, INT4OID, BOOLOID, TEXTOID>>

InputValidationErrors ==
    { "materialize mode required, but it is not allowed in this context",
      "expected same number of node name, port, and query string",
      "query-specified return tuple and function return type are not compatible" }

\* C15: when the context cannot take a materialized result set, or the
\* expected shape is not (text, integer, boolean, text), runOnNodes raises an
\* input validation error, starts no connection, sends nothing and returns no
\* rows
C15_ContextAndShapeRejected ==
    (pc # "call" /\ (BadContext \/ BadShape)) =>
        /\ pc = "error"
        /\ errorRaised \in InputValidationErrors
        /\ BadContext =>
              errorRaised = "materialize mode required, but it is not allowed in this context"
        /\ conns = <<>>
        /\ setResult = <<>>
        /\ returned = {}

C15_Witness ==
    /\ pc = "error"
    /\ ~BadContext
    /\ rsinfo.expectedDesc = <<TEXTOID, INT4OID, TEXTOID, BOOLOID>>
    /\ nodeNameArg = <<"w1">> /\ nodePortArg = <<57637>> /\ commandArg = <<"SELECT 1">>
    /\ errorRaised = "query-specified return tuple and function return type are not compatible"
    /\ conns = <<>>


\* C17: the poll loop terminates: once it is entered, and unless a
\* cancellation arrives, every slot gets an outcome and the loop exits; and the
\* parallel executor is never left while a slot has no recorded outcome
C17_PollLoopTerminates ==
    /\ [](parallelArg /\ pc \in {"store", "done"} =>
             /\ finishedCount = commandCount
             /\ \A index \in 1..commandCount : outcomes[index] # <<>>)
    /\ (parallelArg /\ pc \in {"par_poll", "par_check"}) ~>
          \/ pc = "store" /\ \A index \in 1..commandCount : outcomes[index] # <<>>
          \/ InterruptPending
          \/ errorRaised = "canceling statement due to user request"

C17_Witness ==
    /\ parallelArg
    /\ pc = "store"
    /\ commandCount = 2
    /\ busyPolls[1] > 0
    /\ ~InterruptPending
    /\ \A index \in 1..commandCount : Len(outcomes[index]) = 1

\* C18: in the sequential executor a cancellation seen between two commands
\* opens no connection for the commands not yet started, and the outcomes of
\* the commands completed before it are kept: their rows are returned
C18_CancelKeepsCompleted ==
    (/\ ~parallelArg
     /\ pc = "error"
     /\ errorRaised = "canceling statement due to user request"
     /\ connection = NoConnection
     /\ commandIndex < commandCount) =>
        /\ Len(conns) - callBase <= commandIndex
        /\ \A index \in 1..commandCount :
              outcomes[index] # <<>> =>
                 /\ index <= Len(setResult)
                 /\ setResult[index].success = statusArray[index]

\* C19: at the end of every sweep a slot is still open only if it was found
\* busy in this sweep and in every sweep before; a slot that has finished was
\* busy in fewer sweeps, has its outcome recorded and its connection closed.
\* So no slot, whatever its position, waits for a busy one
C19_BusySlotDoesNotBlock ==
    (parallelArg /\ pc = "par_check") =>
        \A open \in {index \in 1..commandCount : connectionArray[index] # NoConnection} :
           \A index \in 1..commandCount :
              IF connectionArray[index] # NoConnection
              THEN busyPolls[index] = busyPolls[open]
              ELSE /\ busyPolls[index] < busyPolls[open]
                   /\ outcomes[index] # <<>>
                   /\ conns[callBase + index].established =>
                         conns[callBase + index].closed = 1

C19_Witness ==
    /\ parallelArg
    /\ pc = "par_check"
    /\ commandCount = 2
    /\ connectionArray[1] # NoConnection /\ busyPolls[1] = 1
    /\ connectionArray[2] = NoConnection /\ busyPolls[2] = 0
    /\ outcomes[2] = <<"result">>
    /\ conns[callBase + 2].closed = 1

\* C20: in the poll loop cancellation is checked only after a sweep that
\* leaves a slot unfinished, so a batch whose outcomes are all recorded is
\* never discarded by a cancellation
C20_CompleteBatchNotCancelled ==
    (/\ parallelArg
     /\ pc = "error"
     /\ errorRaised = "canceling statement due to user request") =>
        finishedCount < commandCount

\* the connections opened by the current invocation
OwnConnections == (callBase + 1)..Len(conns)

\* C21: every command runs on a connection established for it with
\* FORCE_NEW_CONNECTION; the k-th connection of an invocation is opened for its
\* k-th command, carries at most that one command, and no slot refers to a
\* connection of another slot or of an earlier invocation
C21_FreshConnectionPerCommand ==
    /\ \A id \in 1..Len(conns) :
          /\ "FORCE_NEW_CONNECTION" \in conns[id].flags
          /\ conns[id].sends <= 1
    /\ Len(conns) - callBase <= commandCount
    /\ \A id \in OwnConnections :
          /\ conns[id].nodeName = nodeNameArray[id - callBase]
          /\ conns[id].nodePort = nodePortArray[id - callBase]
          /\ conns[id].command \in {"", commandStringArray[id - callBase]}
    /\ \A index \in 1..Len(connectionArray) :
          connectionArray[index] # NoConnection =>
             connectionArray[index] = callBase + index
    /\ connection # NoConnection => connection = callBase + commandIndex

C21_Witness ==
    /\ pc = "done"
    /\ callBase = 2
    /\ Len(conns) = 4
    /\ \A id \in 1..4 : conns[id].sends = 1 /\ conns[id].closed = 1
    /\ conns[1].nodeName = conns[3].nodeName

\* C22: each source gets one connection that is forced new; it carries the
\* probes of that source only, and it is closed once the source's last target
\* is processed: no source connection is open when the next source's
\* connection is about to be opened or when the matrix build has ended
C22_SourceConnectionClosed ==
    /\ \A id \in 1..Len(conns) :
          /\ "FORCE_NEW_CONNECTION" \in conns[id].flags
          /\ conns[id].nodeName = workerNodeList[id].workerName
          /\ conns[id].nodePort = workerNodeList[id].workerPort
          /\ conns[id].sends <= Len(workerNodeList)
    /\ pc \in {"health_source", "health_done"} =>
          \A id \in 1..Len(conns) : ~IsOpen(conns[id])

\* the slots whose connection attempt failed in the finish-connecting phase
ConnectFailedSlots ==
    {index \in 1..commandCount :
        outcomes[index] # <<>> /\ outcomes[index][1] = "connect failure"}

\* C23: in the parallel executor a slot whose connection attempt failed has
\* the outcome "failed to connect to <host>:<port>" with success = false from
\* then on, and its connection is left alone: released from the slot, nothing
\* sent on it, never polled, and no later phase records anything for the slot
C23_FailedConnectFinal ==
    parallelArg =>
        \A index \in ConnectFailedSlots :
            /\ outcomes[index] = <<"connect failure">>
            /\ statusArray[index] = FALSE
            /\ resultArray[index] =
                  HostPortMessage("failed to connect to ",
                                  nodeNameArray[index], nodePortArray[index])
            /\ connectionArray[index] = NoConnection
            /\ conns[callBase + index].sends = 0
            /\ conns[callBase + index].closed = 0
            /\ busyPolls[index] = 0

C23_Witness ==
    /\ parallelArg
    /\ pc = "store"
    /\ commandCount = 2
    /\ ConnectFailedSlots = {1}
    /\ outcomes[2] = <<"result">>
    /\ busyPolls[2] > 0

\* the slots whose command was sent and whose transport then reports an error
TransportErrorSlots ==
    {index \in 1..commandCount :
        /\ Len(conns) >= callBase + index
        /\ conns[callBase + index].command # ""
        /\ \/ conns[callBase + index].status = "CONNECTION_BAD"
           \/ PQconsumeInput(conns[callBase + index]) = 0}

\* C24: in the poll loop a slot whose transport reports an error is finished by
\* the sweep that visits it: success = false, a failure text that is not empty,
\* its connection closed once and released; no later sweep polls it or changes
\* its outcome. Before that visit the slot is open and has no outcome
C24_TransportErrorFinishesSlot ==
    parallelArg =>
        \A index \in TransportErrorSlots :
            \/ /\ pc = "par_send" \/ (pc = "par_poll" /\ commandIndex <= index)
               /\ outcomes[index] = <<>>
               /\ busyPolls[index] = 0
               /\ connectionArray[index] = callBase + index
            \/ /\ outcomes[index] = <<"result">>
               /\ statusArray[index] = FALSE
               /\ resultArray[index] \in {<<"connection lost">>,
                                          <<"query result unavailable">>}
               /\ connectionArray[index] = NoConnection
               /\ conns[callBase + index].closed = 1
               /\ busyPolls[index] = 0

C24_Witness ==
    /\ parallelArg
    /\ pc = "store"
    /\ commandCount = 2
    /\ TransportErrorSlots = {1}
    /\ resultArray[1] = <<"query result unavailable">>
    /\ busyPolls[2] > 0
    /\ outcomes[2] = <<"result">>

\* C25: the evaluator yields (true, command status) for a completed command
\* that returns nothing, and for a rows-returned response of one column and at
\* most one row it yields (true, value of the cell), with the empty text when
\* the cell is null or there is no row
C25_SuccessTexts ==
    evaluated # <<>> =>
        /\ evalQueryResult.status = "PGRES_COMMAND_OK" =>
              evaluated[1] = [success |-> TRUE,
                              result |-> <<evalQueryResult.cmdStatus>>]
        /\ (/\ evalQueryResult.status = "PGRES_TUPLES_OK"
            /\ evalQueryResult.nfields = 1
            /\ evalQueryResult.ntuples <= 1) =>
              evaluated[1] =
                 [success |-> TRUE,
                  result |-> IF evalQueryResult.ntuples = 1 /\ ~evalQueryResult.isnull
                             THEN <<evalQueryResult.value>>
                             ELSE <<>>]

\* the evaluator was applied to a one-column response without rows
C25_Witness ==
    /\ evaluated # <<>>
    /\ evalQueryResult.status = "PGRES_TUPLES_OK"
    /\ evalQueryResult.nfields = 1
    /\ evalQueryResult.ntuples = 0
    /\ ~evalQueryResult.isnull
    /\ evaluated[1] = [success |-> TRUE, result |-> <<>>]

\* what the Result Evaluator gives for the response to command index
EvaluationOf(index) ==
    LET c == conns[callBase + index]
    IN EvaluateQueryResult(ConnErrorMessage(c.nodeName, c.command),
                           IF parallelArg
                           THEN RemoteResult(c.command)
                           ELSE BlockingResult(c.nodeName, c.command),
                           <<>>)

\* C26: a returned row has success = true only if the command was sent, its
\* response was handed to the Result Evaluator and the evaluator reported
\* success; the true that the parallel executor stores when a connection is
\* established never reaches a row
C26_SuccessOnlyFromEvaluator ==
    \A index \in 1..Len(setResult) :
        setResult[index].success =>
            /\ outcomes[index] = <<"result">>
            /\ conns[callBase + index].command = commandStringArray[index]
            /\ parallelArg => index \notin TransportErrorSlots
            /\ EvaluationOf(index) = [success |-> TRUE,
                                      result |-> setResult[index].result]

C26_Witness ==
    /\ parallelArg
    /\ pc = "done"
    /\ Len(setResult) = 2
    /\ setResult[1].success
    /\ ~setResult[2].success
    /\ nodeNameArray[2] = "lost"
    /\ conns[callBase + 2].established

\* C27: the sequential executor takes the commands one after another in index
\* order: a connection is opened for a command only when every earlier command
\* has its outcome recorded, and at most one of the connections it opened is
\* open at any moment
C27_OneAtATime ==
    ~parallelArg =>
        /\ \A id \in OwnConnections : \A index \in 1..(id - callBase - 1) :
              outcomes[index] # <<>>
        /\ Cardinality({id \in OwnConnections : IsOpen(conns[id])}) <= 1

\* slot index has been polled for a result
Polled(index) ==
    busyPolls[index] > 0 \/ (outcomes[index] # <<>> /\ outcomes[index][1] = "result")

\* C28: the parallel executor's phases are ordered over the whole batch: a
\* handshake is completed only when a connection attempt was started for every
\* command, a command is sent only when every handshake has completed or
\* failed, and a slot is polled only when a send was attempted on every
\* established connection
C28_PhasesOrdered ==
    parallelArg =>
        /\ (\E id \in OwnConnections : conns[id].status # "CONNECTION_STARTED") =>
              Len(conns) - callBase = commandCount
        /\ (\E id \in OwnConnections : conns[id].sends > 0) =>
              \A id \in OwnConnections : conns[id].status # "CONNECTION_STARTED"
        /\ (\E index \in 1..commandCount : Polled(index)) =>
              \A id \in OwnConnections :
                 conns[id].established => conns[id].sends = 1

C28_Witness ==
    /\ parallelArg
    /\ pc = "par_check"
    /\ commandCount = 2
    /\ Polled(1) /\ Polled(2)
    /\ \A id \in OwnConnections : conns[id].sends = 1

\* C29: whatever sources are unreachable and whatever probes fail, the matrix
\* has N*N rows, one for every (source, target) pair; a source that cannot be
\* connected to or that fails every probe gives its N rows with unknown
\* success, and the rows of a source that answers carry what that source
\* found, whatever happened to the other sources
C29_AlwaysFullMatrix ==
    HealthDone =>
        /\ Len(healthRows) = Len(membership) * Len(membership)
        /\ \A sourceNode \in MemberNodes :
              /\ \A targetNode \in MemberNodes :
                    Cardinality(PairRows(sourceNode, targetNode)) = 1
              /\ Cardinality({k \in 1..Len(healthRows) : SourceOf(k) = sourceNode})
                    = Len(membership)
        /\ \A k \in 1..Len(healthRows) :
              /\ FateOf(SourceOf(k)) \in {"down", "error"} => healthRows[k].isNull
              /\ FateOf(SourceOf(k)) = "ok" =>
                    /\ ~healthRows[k].isNull
                    /\ healthRows[k].success = probeLog[k].linkOk

C29_Witness ==
    /\ HealthDone
    /\ Len(membership) = 2
    /\ sourceLog = <<"drops", "ok">>
    /\ Len(healthRows) = 4
    /\ healthRows[2].isNull
    /\ ~healthRows[3].isNull /\ ~healthRows[4].isNull

\* runOnNodes is called with three empty arrays in a valid context
EmptyBatch ==
    /\ nodeNameArg = <<>> /\ nodePortArg = <<>> /\ commandArg = <<>>
    /\ ~BadContext /\ ~BadShape

\* C30: for an empty batch runOnNodes, in either mode, starts no connection,
\* makes no poll sweep and no sleep, raises no error and returns zero rows
C30_EmptyBatch ==
    EmptyBatch =>
        /\ pc \in {"call", "store", "done"}
        /\ conns = <<>>
        /\ errorRaised = ""
        /\ setResult = <<>>
        /\ pc = "done" => [parallel |-> parallelArg, rows |-> <<>>] \in returned

C30_Witness ==
    /\ EmptyBatch
    /\ pc = "done"
    /\ returned = {[parallel |-> TRUE, rows |-> <<>>],
                   [parallel |-> FALSE, rows |-> <<>>]}

\* the parallel executor is past its finish-connecting phase
AfterEstablish == parallelArg /\ pc \in {"par_send", "par_poll", "par_check", "store", "done"}

\* the slots whose connection entry is NULL
ReleasedSlots == {index \in 1..commandCount : connectionArray[index] = NoConnection}

\* C31: in the parallel executor, from the end of the finish-connecting phase
\* on, finishedCount is the number of slots whose connection entry has been set
\* to NULL and is at most commandCount; within a call it never decreases, and it
\* grows by one exactly when one more slot is released
C31_FinishedCountsReleasedSlots ==
    /\ [](AfterEstablish =>
             /\ finishedCount = Cardinality(ReleasedSlots)
             /\ finishedCount <= commandCount)
    /\ [][(AfterEstablish /\ pc' # "call") =>
             \/ /\ finishedCount' = finishedCount
                /\ connectionArray' = connectionArray
             \/ /\ finishedCount' = finishedCount + 1
                /\ \E index \in 1..commandCount :
                      /\ connectionArray[index] # NoConnection
                      /\ connectionArray' =
                            [connectionArray EXCEPT ![index] = NoConnection]]_vars

C31_Witness ==
    /\ parallelArg
    /\ pc = "par_check"
    /\ commandCount = 2
    /\ finishedCount = 1
    /\ ReleasedSlots = {1}
    /\ outcomes[1] = <<"result">>
    /\ busyPolls[2] = 1

====
